---- MODULE Spec2Model ----
(***************************************************************************)
(* Model of UploadShard (core/commands/storage/upload/upload/              *)
(* upload_shard.go): the payment preflight, one negotiator goroutine per   *)
(* shard wrapped in backoff.Retry over the shared helper.HandleShardBo,    *)
(* the ShardErrChanMap registry of per-contract result channels, the push  *)
(* goroutine of every attempt, the inbound delivery of a host's answer,    *)
(* and the completion watcher goroutine.                                   *)
(***************************************************************************)
EXTENDS Integers, FiniteSets, Sequences, TLC

\* ------------------------------------------------------------------ bounds
\* Largest number of shards of a session (len(rss.ShardHashes)).
MaxShards == 2
\* helper.HandleShardBo.MaxElapsedTime, in units of one backoff delay.
MaxElapsed == 1
\* Width of the model's signed integers; the code's int64 scaled down.
IntWidth == 6

Shards == 1..MaxShards

\* ------------------------------------------------- fixed-width arithmetic
Pow2(k) == 2^k

MaxInt == Pow2(IntWidth - 1) - 1

MinInt == 0 - Pow2(IntWidth - 1)

\* Two's complement wrap-around of a signed integer of IntWidth bits.
Wrap(x) == ((x - MinInt) % Pow2(IntWidth)) + MinInt

\* The Go product expectOnePay * int64(len(rss.ShardHashes)), line 34.
MulInt(a, b) == Wrap(a * b)

VARIABLES
  inp,          \* the call's inputs and the collaborators' answers to the preflight
  ret,          \* UploadShard's return value ("pending" before it returns)
  expectTotalPay, \* the total handed to checkAvailableBalance (line 34)
  cancelled,    \* rss.Ctx is done
  elapsed,      \* time since the last Reset of the shared helper.HandleShardBo
  pc,           \* per shard: the negotiator goroutine's position
  attempts,     \* per shard: invocations of the retried operation so far
  last,         \* per shard: how the most recently ended attempt ended
  reg,          \* ShardErrChanMap: per shard, the attempts whose contract id is registered
  push,         \* per shard: the push goroutine of the attempt in flight
  ack,          \* per shard: the inbound delivery for the attempt in flight
  blocked,      \* the kinds of sender blocked for ever on a channel without receiver
  shardStatus,  \* per shard: the session's shard status (init, contract)
  errEv,        \* rss.To(RssToErrorEvent, ...) calls made, by caller and message
  fault,        \* some host, signer or shard failed for a reason other than cancellation
  wpc,          \* the watcher goroutine's position
  watchers,     \* watcher goroutines started
  submits,      \* calls of Submit
  wlast         \* what the watcher's last select iteration did

vars == <<inp, ret, expectTotalPay, cancelled, elapsed, pc, attempts, last, reg,
          push, ack, blocked, shardStatus, errEv,
          fault, wpc, watchers, submits, wlast>>

negVars == <<pc, attempts, last, reg, push, ack, blocked>>

watchVars == <<wpc, watchers, submits, wlast>>

\* ------------------------------------------------------------- preflight
\* Inputs of a call: CurrentRate's outcome, TotalPay's outcome (a positive
\* int64 or an error), the renter's balance, and the number of shards.
Inputs(pays, balances, indexes) ==
  [rateOK: BOOLEAN, payOK: BOOLEAN, onePay: pays, balance: balances, n: 0..MaxShards,
   shardIndexes: indexes]

\* The shardIndexes a caller can pass: an index for every position of
\* rss.ShardHashes (positions and indexes are counted from 1 here).
IndexMaps == [Shards -> Shards]

\* The shardIndexes that give every position its own index.
Identity == [index \in Shards |-> index]

\* rss.ShardHashes[index]: the content id at a position of the sequence.
ShardHash(index) == <<"hash", index>>

\* Lines 41 and 164: the goroutine's arguments (i, h) of the shard at a position.
GoArgs(in, index) == [i |-> in.shardIndexes[index], h |-> ShardHash(index)]

\* Lines 104-105, 137 and 143: the shard index and content id that the signed
\* contract and the init call carry, in every attempt of the goroutine.
ContractParams(in, index) ==
  [ShardIndex |-> GoArgs(in, index).i, ShardHash |-> GoArgs(in, index).h]

\* checkAvailableBalance(rss.Ctx, expectTotalPay, token), line 35.
checkAvailableBalance(balance, total) ==
  IF balance < total THEN "InsufficientBalance" ELSE "nil"

\* Line 34.
ExpectTotalPay(in) == MulInt(in.onePay, in.n)

\* Lines 26-38: the first failing step's error, or "nil".
Preflight(in) ==
  IF ~in.rateOK THEN "RateUnavailable"
  ELSE IF ~in.payOK THEN "PricingError"
  ELSE checkAvailableBalance(in.balance, ExpectTotalPay(in))

\* A preflight error spawns no goroutine.
LaunchesAlways(r) == TRUE

\* Lines 36-40: the goroutines are launched only past the three early returns.
Launches(r) == r = "nil"

NoEvents ==
  [nohost |-> [i \in Shards |-> 0], timeout |-> [i \in Shards |-> 0],
   submit |-> 0, shards |-> 0]

InitWith(ins) ==
  /\ inp \in ins
  /\ ret = "pending"
  /\ expectTotalPay = 0
  /\ cancelled = FALSE
  /\ elapsed = 0
  /\ pc = [i \in Shards |-> "idle"]
  /\ attempts = [i \in Shards |-> 0]
  /\ last = [i \in Shards |-> "none"]
  /\ reg = [i \in Shards |-> {}]
  /\ push = [i \in Shards |-> "none"]
  /\ ack = [i \in Shards |-> "none"]
  /\ blocked = {}
  /\ shardStatus = [i \in Shards |-> "init"]
  /\ errEv = NoEvents
  /\ fault = FALSE
  /\ wpc = "idle"
  /\ watchers = 0
  /\ submits = 0
  /\ wlast = "wait"

\* Lines 21-197: the preflight, then one goroutine per shard and the watcher.
UploadShard ==
  /\ ret = "pending"
  /\ ret' = Preflight(inp)
  /\ expectTotalPay' =
       IF inp.rateOK /\ inp.payOK THEN ExpectTotalPay(inp) ELSE 0
  /\ IF Launches(Preflight(inp))
       THEN /\ pc' = [i \in Shards |-> IF i <= inp.n THEN "ready" ELSE "idle"]
            /\ wpc' = "run"
            /\ watchers' = watchers + 1
       ELSE UNCHANGED <<pc, wpc, watchers>>
  /\ UNCHANGED <<inp, cancelled, elapsed, attempts, last, reg, push, ack, blocked, shardStatus, errEv, fault, submits, wlast>>

\* ------------------------------------------------------------ negotiator
Bump(f, i) == [f EXCEPT ![i] = @ + 1]

Min(a, b) == IF a < b THEN a ELSE b

\* The ways an invocation of the retried operation (lines 42-158) ends.
ErrKinds == {"decode", "tokfail", "unmarshal", "signfail", "pusherr", "nack", "timeout"}

NilKinds == {"cancelled", "nohost", "unsupported", "ack"}

\* The ack wait's timeout reported as success.
IsErrNoTimeout(kind) == kind \in ErrKinds \ {"timeout"}

\* The failed host selection returned as an error.
IsErrNoHost(kind) == kind \in ErrKinds \cup {"nohost"}

\* The cancellation returned as an error (ctx.Err()).
IsErrCancelled(kind) == kind \in ErrKinds \cup {"cancelled"}

\* The signing failure swallowed: the operation returning nil on it.
IsErrNoSignfail(kind) == kind \in ErrKinds \ {"signfail"}

\* The missing token returned as an error, so that another host is drawn.
IsErrUnsupported(kind) == kind \in ErrKinds \cup {"unsupported"}

\* The failed supporttokens call swallowed: the operation returning nil on it.
IsErrNoTokfail(kind) == kind \in ErrKinds \ {"tokfail"}

\* The operation returns a non-nil error (lines 62, 71, 77, 125, 155, 157).
IsErr(kind) == kind \in ErrKinds

\* NextBackOff returns Stop once MaxElapsedTime has passed since the Reset.
Stop(e) == e >= MaxElapsed

\* A retry loop without a budget: NextBackOff never stopping.
NextPcNoStop(kind, e) == IF ~IsErr(kind) THEN "done" ELSE "sleep"

\* The loop going on after an invocation that returned nil.
NextPcRetryNil(kind, e) == IF Stop(e) THEN "done" ELSE "sleep"

\* backoff.Retry after an invocation: nil ends the loop; an error asks
\* NextBackOff, which stops the loop or has it sleep before the next one.
NextPc(kind, e) ==
  IF ~IsErr(kind) THEN "done" ELSE IF Stop(e) THEN "done" ELSE "sleep"

\* The timeout event raised after every failed invocation.
ExhaustedAnyError(kind, e) == IsErr(kind)

\* Lines 160-163: the error backoff.Retry returns raises the timeout event.
Exhausted(kind, e) == IsErr(kind) /\ Stop(e)

\* A failure counts as a fault of the environment unless the cancellation of
\* rss.Ctx, the parent of the remote calls' contexts, can have caused it.
Genuine(kind) ==
  \/ kind \in {"nohost", "decode", "unmarshal", "unsupported", "signfail", "nack", "timeout"}
  \/ kind \in {"tokfail", "pusherr"} /\ ~cancelled

\* The invocation ends and backoff.Retry goes on (lines 42, 159-163); the
\* no-host branch raises its own event (line 51).
End(i, kind, e) ==
  /\ last' = [last EXCEPT ![i] = kind]
  /\ pc' = [pc EXCEPT ![i] = NextPc(kind, e)]
  /\ fault' = (fault \/ Genuine(kind))
  /\ errEv' = [errEv EXCEPT
       !.nohost = IF kind = "nohost" THEN Bump(@, i) ELSE @,
       !.timeout = IF Exhausted(kind, e) THEN Bump(@, i) ELSE @]

\* The inbound handler's delivery of a host's answer for a contract id: it
\* looks the channel up and sends on it; with no entry it does nothing.
Deliver(registered) == IF registered THEN "send" ELSE "noop"

\* What an ending attempt leaves behind on the unbuffered channel of line 93,
\* which has no receiver left: a sender whose value was not the one received
\* stays blocked; a push goroutine still inside P2PCall blocks if the call
\* fails; an answer of the host yet to come blocks if it finds the id still
\* registered (Deliver). Nothing reads these goroutines again, so what becomes
\* of them is recorded when the attempt ends.
Leaks(i, recvd, idKept) ==
  LET p == IF push[i] = "sending" /\ recvd # "push" THEN {{"push"}}
           ELSE IF push[i] = "calling" THEN {{}, {"push"}}
           ELSE {{}}
      a == IF ack[i] \in {"nil", "err"} /\ recvd # "ack" THEN {{"ack"}}
           ELSE IF ack[i] = "none" /\ Deliver(idKept) = "send" THEN {{}, {"ack"}}
           ELSE {{}}
  IN {x \cup y : x \in p, y \in a}

\* One channel per shard kept across its attempts: a value sent and not
\* received stays receivable by the next attempt.
CarryOneChannel(i, recvd) ==
  /\ blocked' = blocked
  /\ push' = [push EXCEPT ![i] = IF @ = "sending" /\ recvd # "push" THEN @ ELSE "none"]
  /\ ack' = [ack EXCEPT ![i] = IF @ \in {"nil", "err"} /\ recvd # "ack" THEN @ ELSE "none"]

Carry(i, recvd) ==
  /\ \E l \in Leaks(i, recvd, attempts[i] \in reg'[i]) : blocked' = blocked \cup l
  /\ push' = [push EXCEPT ![i] = "none"]
  /\ ack' = [ack EXCEPT ![i] = "none"]

NoCarry == UNCHANGED <<push, ack, blocked>>

\* The shared HandleShardBo's clock as an invocation starts: backoff.Retry
\* resets it before a goroutine's first invocation (b.Reset()), and has slept
\* one delay before any later one.
Restart(p, e) == IF p = "ready" THEN 0 ELSE Min(e + 1, MaxElapsed)

\* Lines 42-63: backoff.Retry resets the shared HandleShardBo before the first
\* invocation and sleeps before every later one; then the cancellation check,
\* hp.NextValidHost and peer.Decode.
StartAttempt(i) ==
  /\ pc[i] \in {"ready", "sleep"}
  /\ elapsed' = Restart(pc[i], elapsed)
  /\ attempts' = Bump(attempts, i)
  /\ IF cancelled
       THEN End(i, "cancelled", Restart(pc[i], elapsed))
       ELSE \E h \in {"nohost", "decode", "ok"} :
              IF h = "ok"
                THEN /\ pc' = [pc EXCEPT ![i] = "tokens"]
                     /\ last' = [last EXCEPT ![i] = "none"]
                     /\ UNCHANGED <<fault, errEv>>
                ELSE End(i, h, Restart(pc[i], elapsed))
  /\ NoCarry
  /\ UNCHANGED <<inp, ret, expectTotalPay, cancelled, reg, shardStatus, watchVars>>

\* The contract id minted and never registered.
ShardErrChanMapSetNothing(r, id) == r

\* ShardErrChanMap.Set(contractId, cb), line 94.
ShardErrChanMapSet(r, id) == r \cup {id}

\* Lines 66-94: the supporttokens call returns; on a match the contract id is
\* minted and its channel registered.
TokenReply(i) ==
  /\ pc[i] = "tokens"
  /\ \E r \in {"tokfail", "unmarshal", "unsupported", "supported"} :
       IF r = "supported"
         THEN /\ reg' = [reg EXCEPT ![i] = ShardErrChanMapSet(@, attempts[i])]
              /\ pc' = [pc EXCEPT ![i] = "sign"]
              /\ UNCHANGED <<last, fault, errEv>>
         ELSE End(i, r, elapsed) /\ UNCHANGED reg
  /\ NoCarry
  /\ UNCHANGED <<inp, ret, expectTotalPay, cancelled, elapsed, attempts,
                 shardStatus, watchVars>>

\* Lines 96-149: the signing goroutine reports; on success the push goroutine
\* is started and the attempt goes on to the select of line 152.
SignReply(i) ==
  /\ pc[i] = "sign"
  /\ \E ok \in BOOLEAN :
       IF ok
         THEN /\ push' = [push EXCEPT ![i] = "calling"]
              /\ pc' = [pc EXCEPT ![i] = "await"]
              /\ UNCHANGED <<last, fault, errEv>>
         ELSE End(i, "signfail", elapsed) /\ UNCHANGED push
  /\ UNCHANGED <<inp, ret, expectTotalPay, cancelled, elapsed, attempts, reg, ack,
                 blocked, shardStatus, watchVars>>

\* Lines 132-149: the init call of the attempt in flight returns; an error is
\* sent on cb, a success ends the goroutine.
PushReturn(i) ==
  /\ pc[i] = "await"
  /\ push[i] = "calling"
  /\ \E ok \in BOOLEAN :
       /\ push' = [push EXCEPT ![i] = IF ok THEN "done" ELSE "sending"]
       /\ fault' = (fault \/ (~ok /\ ~cancelled))
  /\ UNCHANGED <<inp, ret, expectTotalPay, cancelled, elapsed, pc, attempts, last,
                 reg, ack, blocked, shardStatus, errEv, watchVars>>

\* The session's shard status after a host's answer within the ack window: a
\* nil answer is the host's signed contract, which completes the shard.
Answered(st, res) == IF res = "nil" THEN "contract" ELSE st

\* The host answers the init of the attempt in flight (its id is registered
\* since line 94): the inbound handler starts sending the result on cb.
AckArrive(i) ==
  /\ pc[i] = "await"
  /\ ack[i] = "none"
  /\ \E res \in {"nil", "err"} :
       /\ ack' = [ack EXCEPT ![i] =
                    IF Deliver(attempts[i] \in reg[i]) = "send" THEN res ELSE "done"]
       /\ shardStatus' = [shardStatus EXCEPT ![i] = Answered(@, res)]
       /\ fault' = (fault \/ res = "err")
  /\ UNCHANGED <<inp, ret, expectTotalPay, cancelled, elapsed, pc, attempts, last,
                 reg, push, blocked, errEv, watchVars>>

\* The received value dropped and nil returned in its place.
ReceivedNilAlways(i, from) == "ack"

\* The kind of ending a received value makes: the push goroutine only ever
\* sends an error, the inbound delivery sends the host's result.
Received(i, from) ==
  IF from = "push" THEN "pusherr" ELSE IF ack[i] = "nil" THEN "ack" ELSE "nack"

\* Lines 153-155: a value is received on cb from a sender blocked on it; the
\* entry is removed and the value returned.
Receive(i) ==
  /\ pc[i] = "await"
  /\ \E from \in {"push", "ack"} :
       /\ from = "push" => push[i] = "sending"
       /\ from = "ack" => ack[i] \in {"nil", "err"}
       /\ reg' = [reg EXCEPT ![i] = @ \ {attempts[i]}]
       /\ End(i, Received(i, from), elapsed)
       /\ Carry(i, from)
  /\ UNCHANGED <<inp, ret, expectTotalPay, cancelled, elapsed, attempts,
                 shardStatus, watchVars>>

\* Lines 156-157: the 30s tick fires with nothing to receive. The init call's
\* context expires after 10s (line 133), so the call has returned by then.
Timeout(i) ==
  /\ pc[i] = "await"
  /\ push[i] = "done"
  /\ ack[i] = "none"
  /\ End(i, "timeout", elapsed)
  /\ UNCHANGED reg
  /\ Carry(i, "none")
  /\ UNCHANGED <<inp, ret, expectTotalPay, cancelled, elapsed, attempts,
                 shardStatus, watchVars>>

\* ----------------------------------------------------------- environment
Running(i) == pc[i] \notin {"idle", "done"}

\* Time passes while a negotiator is at work.
Advance ==
  /\ \E i \in Shards : Running(i)
  /\ elapsed < MaxElapsed
  /\ elapsed' = elapsed + 1
  /\ UNCHANGED <<inp, ret, expectTotalPay, cancelled, negVars, shardStatus, errEv,
                 fault, watchVars>>

\* The caller cancels rss.Ctx.
Cancel ==
  /\ ret = "nil"
  /\ ~cancelled
  /\ cancelled' = TRUE
  /\ UNCHANGED <<inp, ret, expectTotalPay, elapsed, negVars, shardStatus, errEv,
                 fault, watchVars>>

\* ---------------------------------------------------------------- watcher
\* rss.GetCompleteShardsNum's answers: an error, or the two counts. The count
\* of complete shards follows the hosts' answers; the count of failed shards is
\* kept by the session and read here as it comes, zero or not.
Queries == {"err", "ok", "failed"}

CompleteNum == Cardinality({i \in Shards : i <= inp.n /\ shardStatus[i] = "contract"})

ErrorNum(q) == IF q = "failed" THEN 1 ELSE 0

\* Failed shards left unnoticed.
DecideIgnoreErrors(completeNum, errorNum, numShards) ==
  IF completeNum = numShards THEN "submit" ELSE "wait"

\* Failed shards finalized with the complete ones.
DecidePartial(completeNum, errorNum, numShards) ==
  IF completeNum = numShards \/ errorNum > 0 THEN "submit" ELSE "wait"

\* Finalize kept for sessions that have shards.
DecideNeedsShards(completeNum, errorNum, numShards) ==
  IF numShards > 0 /\ completeNum = numShards THEN "submit"
  ELSE IF errorNum > 0 THEN "abort"
  ELSE "wait"

\* Lines 177-188: what a tick with a successful query does.
Decide(completeNum, errorNum, numShards) ==
  IF completeNum = numShards THEN "submit"
  ELSE IF errorNum > 0 THEN "abort"
  ELSE "wait"

\* The watcher giving up on a failed query.
AfterQueryErrReturn == "done"

\* Lines 173-175: a failed query continues the loop.
AfterQueryErr == "run"

\* A failure of Submit left unreported.
SubmitEventsSilent(ok, n) == n

\* Lines 180-182: a failure of Submit raises one error event.
SubmitEvents(ok, n) == IF ok THEN n ELSE n + 1

\* The watcher polling on after Submit.
AfterSubmitLoop == "run"

\* Line 183: the watcher returns after Submit, whatever Submit returned.
AfterSubmit == "done"

\* Lines 171-188: a tick of the 5s ticker is selected.
WatcherTick(q) ==
  /\ wpc = "run"
  /\ fault' = (fault \/ q = "failed")
  /\ IF q = "err"
       THEN /\ wlast' = "qerr"
            /\ wpc' = AfterQueryErr
            /\ UNCHANGED <<submits, errEv>>
       ELSE LET d == Decide(CompleteNum, ErrorNum(q), inp.n) IN
            CASE d = "submit" ->
                   \E ok \in BOOLEAN :
                     /\ submits' = submits + 1
                     /\ errEv' = [errEv EXCEPT !.submit = SubmitEvents(ok, @)]
                     /\ wlast' = IF ok THEN "submitted" ELSE "submitfail"
                     /\ wpc' = AfterSubmit
              [] d = "abort" ->
                   /\ errEv' = [errEv EXCEPT !.shards = @ + 1]
                   /\ wlast' = "abort"
                   /\ wpc' = "done"
                   /\ UNCHANGED submits
              [] OTHER ->
                   /\ wlast' = "wait"
                   /\ UNCHANGED <<wpc, submits, errEv>>
  /\ UNCHANGED <<inp, ret, expectTotalPay, cancelled, elapsed, negVars, shardStatus,
                 watchers>>

\* Lines 189-191: the Done channel of rss.Ctx is selected.
WatcherCtxDone ==
  /\ wpc = "run"
  /\ cancelled
  /\ wpc' = "done"
  /\ wlast' = "ctxdone"
  /\ UNCHANGED <<inp, ret, expectTotalPay, cancelled, elapsed, negVars, shardStatus,
                 errEv, fault, watchers, submits>>

\* ---------------------------------------------------------- specification
\* One step of shard i's negotiator goroutine or of its attempt's push goroutine.
NegStep(i) ==
  \/ StartAttempt(i)
  \/ TokenReply(i)
  \/ SignReply(i)
  \/ PushReturn(i)
  \/ Receive(i)
  \/ Timeout(i)

Next ==
  \/ UploadShard
  \/ \E i \in Shards : NegStep(i)
  \/ \E i \in Shards : AckArrive(i)
  \/ Advance
  \/ Cancel
  \/ \E q \in Queries : WatcherTick(q)
  \/ WatcherCtxDone

Init == InitWith(Inputs({1}, {0, MaxShards}, {Identity}))

Spec == Init /\ [][Next]_vars

\* Goroutines are scheduled, remote calls and timers return, and the query of
\* the session's counters succeeds again and again.
Fairness ==
  /\ WF_vars(UploadShard)
  /\ \A i \in Shards : WF_vars(NegStep(i))
  /\ WF_vars(WatcherTick("ok"))

FairSpec == Spec /\ Fairness

\* The preflight alone, over every price and balance of the integer width.
InitPay == InitWith(Inputs(1..MaxInt, 0..MaxInt, {Identity}))

SpecPay == InitPay /\ [][UploadShard]_vars

\* The session under every shardIndexes a caller can pass, the balance sufficient.
InitIdx == InitWith(Inputs({1}, {MaxShards}, IndexMaps))

SpecIdx == InitIdx /\ [][Next]_vars

\* ------------------------------------------------------------------ claims
Session == 1..inp.n

\* No goroutine has run, no host was drawn or called, and the registry and
\* the session are as they were before the call.
NothingStarted ==
  /\ \A i \in Shards : /\ pc[i] = "idle" /\ attempts[i] = 0 /\ last[i] = "none"
                       /\ reg[i] = {} /\ push[i] = "none" /\ ack[i] = "none"
                       /\ shardStatus[i] = "init"
  /\ wpc = "idle" /\ watchers = 0 /\ submits = 0
  /\ errEv = NoEvents /\ blocked = {}

\* The preflight step that fails first, from the inputs: the rate lookup,
\* the per-shard pay, or the balance against the total that was checked.
FailingStep ==
  IF ~inp.rateOK THEN "RateUnavailable"
  ELSE IF ~inp.payOK THEN "PricingError"
  ELSE IF inp.balance < expectTotalPay THEN "InsufficientBalance"
  ELSE "nil"

\* C1: once UploadShard has returned with a preflight step failed, it has
\* returned that step's error, and in that and every later state no
\* negotiator or watcher runs, no host was drawn or called, and the registry
\* and the session are untouched.
C1_PreflightFailureStartsNothing ==
  (ret # "pending" /\ FailingStep # "nil") => (ret = FailingStep /\ NothingStarted)

C1_Witness == ret = "InsufficientBalance" /\ inp.n = MaxShards /\ NothingStarted

\* C2: the total checked against the balance is the true product of the
\* per-shard pay and the shard count, and a balance below that product ends
\* in InsufficientBalance with nothing started.
C2_TotalIsTrueProduct ==
  (ret # "pending" /\ inp.rateOK /\ inp.payOK) =>
     /\ expectTotalPay = inp.onePay * inp.n
     /\ inp.balance < inp.onePay * inp.n => (ret = "InsufficientBalance" /\ NothingStarted)

\* What the watcher has done so far is at most one terminal action.
WatcherOnce ==
  /\ watchers = (IF ret = "nil" THEN 1 ELSE 0)
  /\ submits <= 1
  /\ errEv.shards <= 1
  /\ submits + errEv.shards <= 1
  /\ errEv.submit <= submits
  /\ (wpc = "done" /\ ~cancelled) => submits + errEv.shards = 1

\* C3: a session whose preflight succeeded has exactly one watcher; Submit is
\* invoked at most once, the watcher never both finalizes and aborts, and
\* once it has terminated it does nothing more.
C3_WatcherTerminatesOnce ==
  /\ []WatcherOnce
  /\ [][wpc = "done" => (wpc' = "done" /\ submits' = submits /\ watchers' = watchers
                          /\ errEv'.shards = errEv.shards /\ errEv'.submit = errEv.submit)]_vars

C3_Witness == wpc = "done" /\ submits = 1 /\ inp.n = MaxShards /\ watchers = 1

\* Error events raised by negotiators.
NegEvents(i) == errEv.nohost[i] + errEv.timeout[i]

\* C4: while no host, signer or shard fails for a reason of its own, no
\* negotiator raises a session error event, whenever the session is cancelled.
C4_CancelRaisesNoError == ~fault => \A i \in Shards : NegEvents(i) = 0

\* Registry entries of shard i that belong to no attempt in flight.
Orphans(i) == reg[i] \ (IF pc[i] \in {"sign", "await"} THEN {attempts[i]} ELSE {})

\* C6: the contract id of an attempt that has ended is not in the registry,
\* so a shard holds no more entries than it has attempts in flight.
C6_EndedAttemptUnregistered == \A i \in Shards : Orphans(i) = {}

\* C7: the registry holds at most one entry per session and shard, and the id
\* an attempt is about to register is not in the registry yet.
C7_OneEntryPerShard ==
  \A i \in Shards : /\ Cardinality(reg[i]) <= 1
                    /\ pc[i] = "tokens" => attempts[i] \notin reg[i]

\* C8: no goroutine sending a result on a contract's channel stays blocked:
\* neither a push goroutine reporting its failure nor an inbound delivery.
C8_SendersNeverBlock == blocked = {}

\* C9: an attempt whose ack wait timed out has ended as a failure: either
\* the budget was exhausted and the timeout event raised, or the negotiator
\* sleeps, and the sleep ends in a new attempt for the same shard.
C9_TimeoutIsRetried ==
  /\ [](\A i \in Shards :
          last[i] = "timeout" =>
            \/ pc[i] = "sleep"
            \/ pc[i] = "done" /\ errEv.timeout[i] = 1)
  /\ \A i \in Shards : (pc[i] = "sleep" /\ last[i] = "timeout") ~> (pc[i] # "sleep")
  /\ [][\A i \in Shards :
          (pc[i] = "sleep" /\ pc'[i] # "sleep") => attempts'[i] = attempts[i] + 1]_vars

C9_Witness ==
  \E i \in Shards : /\ pc[i] = "sleep" /\ last[i] = "timeout" /\ ~cancelled
                    /\ attempts[i] \in reg[i]

\* Shard i's negotiation ended on a host that does not list the chosen token,
\* with no contract of the shard answered by any host.
Unsupported(i) == last[i] = "unsupported" /\ shardStatus[i] = "init"

\* C5: once a shard's host has not listed the chosen token, and unless the
\* session is cancelled, an error event is raised and the watcher terminates
\* by aborting; finalize is never invoked.
C5_UnsupportedTokenAborts ==
  /\ [](\A i \in Shards : (Unsupported(i) /\ ~cancelled) => submits = 0)
  /\ (\E i \in Shards : Unsupported(i))
        ~> (cancelled \/ (errEv.shards = 1 /\ wpc = "done"))

\* A session with shards in which nothing has failed and which is not cancelled.
AllWell == ret = "nil" /\ inp.n >= 1 /\ ~fault /\ ~cancelled

\* Finalize was invoked once, after one attempt of every shard.
Finalized == submits = 1 /\ \A i \in Session : attempts[i] = 1

\* C10: while every token check, signing, push and acknowledgement succeeds
\* and the session is not cancelled, each shard makes one attempt, finalize
\* is invoked at most once and eventually once, and no error event is raised.
C10_FullSuccess ==
  /\ [](AllWell => (/\ \A i \in Session : attempts[i] <= 1
                    /\ submits <= 1
                    /\ errEv = NoEvents))
  /\ <>(ret \notin {"pending", "nil"} \/ inp.n = 0 \/ fault \/ cancelled \/ Finalized)

\* C10, amended: as C10, but the only error event raised is the one the
\* watcher raises when finalize itself fails.
C10_FullSuccessUnlessSubmitFails ==
  /\ [](AllWell => (/\ \A i \in Session : attempts[i] <= 1
                    /\ submits <= 1
                    /\ [errEv EXCEPT !.submit = 0] = NoEvents
                    /\ errEv.submit = (IF wlast = "submitfail" THEN 1 ELSE 0)))
  /\ <>(ret \notin {"pending", "nil"} \/ inp.n = 0 \/ fault \/ cancelled \/ Finalized)

C10_Witness ==
  /\ AllWell /\ Finalized /\ inp.n = MaxShards /\ wlast = "submitted"
  /\ errEv = NoEvents /\ \A i \in Session : last[i] = "ack"

\* Shard i's retry loop has ended on an invocation that returned an error.
GaveUp(i) == pc[i] = "done" /\ last[i] \in ErrKinds

\* C11: the timeout event of a shard is raised exactly when its retry loop
\* gives up after a failed attempt, it is raised once and it is the shard's
\* only event; a negotiator that has ended makes no further attempt and
\* raises nothing more.
C11_ExhaustionRaisesOneEvent ==
  /\ [](\A i \in Shards :
          /\ errEv.timeout[i] = (IF GaveUp(i) THEN 1 ELSE 0)
          /\ GaveUp(i) => errEv.nohost[i] = 0)
  /\ [][\A i \in Shards :
          pc[i] = "done" =>
            /\ pc'[i] = "done" /\ attempts'[i] = attempts[i]
            /\ NegEvents(i)' = NegEvents(i)]_vars

C11_Witness ==
  \E i \in Shards : /\ GaveUp(i) /\ last[i] = "pusherr" /\ attempts[i] = MaxElapsed + 1
                    /\ errEv.timeout[i] = 1 /\ ~cancelled

\* C12: an attempt that finds no host goes from its start straight to the
\* end of the shard's negotiation, calling no host and registering nothing;
\* it raises the shard's one error event, the no-host event, and not the
\* timeout event; no attempt of the shard follows.
C12_NoHostAbandonsShard ==
  /\ [](\A i \in Shards :
          last[i] = "nohost" =>
            /\ pc[i] = "done"
            /\ errEv.nohost[i] = 1 /\ errEv.timeout[i] = 0
            /\ attempts[i] \notin reg[i])
  /\ [][\A i \in Shards :
          /\ (last'[i] = "nohost" /\ attempts'[i] # attempts[i]) =>
                /\ pc[i] \in {"ready", "sleep"} /\ pc'[i] = "done"
                /\ reg' = reg /\ push' = push /\ ack' = ack
                /\ errEv' = [errEv EXCEPT !.nohost[i] = @ + 1]
          /\ last[i] = "nohost" => (last'[i] = "nohost" /\ attempts'[i] = attempts[i])]_vars

C12_Witness ==
  \E i \in Shards : /\ last[i] = "nohost" /\ attempts[i] = MaxElapsed + 1
                    /\ errEv.nohost[i] = 1 /\ ~cancelled

\* C13: a tick whose query reports a failed shard while not every shard is
\* complete raises the watcher's abort event and ends the watcher without
\* invoking finalize; an aborted session is never finalized.
C13_FailedShardAborts ==
  /\ [][(WatcherTick("failed") /\ CompleteNum < inp.n) =>
          /\ wpc' = "done" /\ wlast' = "abort"
          /\ errEv' = [errEv EXCEPT !.shards = @ + 1]
          /\ submits' = submits]_vars
  /\ [](wlast = "abort" => (wpc = "done" /\ submits = 0 /\ errEv.shards = 1))

C13_Witness ==
  /\ wlast = "abort" /\ inp.n = MaxShards /\ CompleteNum = MaxShards - 1
  /\ \A i \in Session : pc[i] = "done"

\* C14: once a session with shards is cancelled the watcher invokes finalize
\* no more and raises no error event.
C14_WatcherSilentAfterCancel ==
  [][(cancelled /\ inp.n >= 1) =>
                  (/\ submits' = submits
                   /\ errEv'.submit = errEv.submit
                   /\ errEv'.shards = errEv.shards)]_vars

\* C15: an attempt that starts with the session cancelled ends at once and
\* ends the shard's negotiation: it draws and calls no host, registers and
\* signs nothing, raises nothing, and no attempt of the shard follows it.
C15_NoAttemptAfterCancel ==
  /\ [][\A i \in Shards :
          /\ (cancelled /\ attempts'[i] # attempts[i]) =>
                /\ pc'[i] = "done" /\ last'[i] = "cancelled"
                /\ reg' = reg /\ push' = push /\ ack' = ack
                /\ errEv' = errEv /\ fault' = fault /\ shardStatus' = shardStatus
          /\ last[i] = "cancelled" => (last'[i] = "cancelled" /\ attempts'[i] = attempts[i])]_vars
  /\ [](\A i \in Shards :
          last[i] = "cancelled" =>
            (cancelled /\ pc[i] = "done" /\ attempts[i] \notin reg[i]))

C15_Witness ==
  \E i \in Shards : /\ last[i] = "cancelled" /\ attempts[i] = MaxElapsed + 1
                    /\ NegEvents(i) = 0

\* C16: every invocation of finalize is a step of the watcher, on a tick
\* whose query succeeded and counted every shard of the session complete; no
\* negotiator moves in that step.
C16_FinalizeOnlyByWatcher ==
  [][submits' # submits =>
       /\ submits' = submits + 1
       /\ wpc = "run" /\ wpc' = "done"
       /\ \E q \in Queries \ {"err"} : WatcherTick(q)
       /\ CompleteNum = inp.n
       /\ UNCHANGED negVars]_vars

C16_Witness ==
  /\ submits = 1 /\ inp.n = MaxShards /\ CompleteNum = MaxShards
  /\ \E i \in Session : pc[i] = "await"

\* C17: while an attempt signs, has its push in flight or awaits the host's
\* answer, its contract id is registered; the id is registered in the step
\* that ends the token check, before the signing, and no push or answer
\* exists before the signing has succeeded.
C17_RegisteredBeforeSignAndPush ==
  /\ [](\A i \in Shards :
          /\ pc[i] \in {"sign", "await"} => attempts[i] \in reg[i]
          /\ (push[i] # "none" \/ ack[i] # "none") =>
                (pc[i] = "await" /\ attempts[i] \in reg[i])
          /\ pc[i] \in {"tokens", "sign"} => (push[i] = "none" /\ ack[i] = "none"))
  /\ [][\A i \in Shards :
          /\ (pc'[i] = "sign" /\ pc[i] # "sign") =>
                (pc[i] = "tokens" /\ attempts[i] \notin reg[i] /\ attempts[i] \in reg'[i])
          /\ (pc'[i] = "await" /\ pc[i] # "await") => pc[i] = "sign"]_vars

C17_Witness ==
  \E i \in Shards : /\ pc[i] = "await" /\ push[i] = "calling" /\ ack[i] = "nil"
                    /\ reg[i] = {attempts[i]} /\ attempts[i] = MaxElapsed + 1

\* C18: an attempt whose signing fails ends there, with no push started; it
\* raises no event unless the budget is exhausted, in which case the
\* negotiation ends with the timeout event; otherwise the negotiator sleeps,
\* and the sleep ends in a new attempt for the shard.
C18_SignFailureIsRetried ==
  /\ [](\A i \in Shards :
          last[i] = "signfail" =>
            /\ push[i] = "none"
            /\ errEv.nohost[i] = 0
            /\ \/ pc[i] = "sleep" /\ errEv.timeout[i] = 0
               \/ pc[i] = "done" /\ errEv.timeout[i] = 1)
  /\ \A i \in Shards : (pc[i] = "sleep" /\ last[i] = "signfail") ~> (pc[i] # "sleep")
  /\ [][\A i \in Shards :
          (pc[i] = "sign" /\ pc'[i] # "sign" /\ pc'[i] # "await") =>
            /\ last'[i] = "signfail" /\ push' = push /\ ack' = ack
            /\ pc'[i] = (IF Stop(elapsed) THEN "done" ELSE "sleep")]_vars

C18_Witness ==
  \E i \in Shards : /\ pc[i] = "sleep" /\ last[i] = "signfail" /\ ~cancelled
                    /\ attempts[i] \in reg[i] /\ errEv = NoEvents

\* C19: an attempt whose init push has failed, the error being on its way to
\* the channel, does not end as a success: it ends on an error.
C19_FailedPushNeverSucceeds ==
  [][\A i \in Shards :
       (pc[i] = "await" /\ push[i] = "sending" /\ pc'[i] # "await") =>
         last'[i] \in ErrKinds]_vars

\* The attempt of shard i in flight ends in this step by a receive on its channel.
Receives(i) == pc[i] = "await" /\ pc'[i] # "await" /\ last'[i] # "timeout"

\* C20: the value received on the attempt's channel is the operation's
\* result. A nil answer of the host ends the negotiation as a success: no
\* further attempt, no event of this negotiator. An error, the host's or the
\* push goroutine's, ends the attempt as a failure that is retried unless the
\* budget is exhausted. The entry of the attempt is removed on the receive.
C20_ReceivedValuePropagated ==
  /\ [][\A i \in Shards :
          /\ Receives(i) =>
                /\ attempts[i] \notin reg'[i]
                /\ \/ /\ ack[i] = "nil" /\ last'[i] = "ack" /\ pc'[i] = "done"
                      /\ errEv' = errEv
                   \/ /\ ack[i] = "err" /\ last'[i] = "nack"
                      /\ pc'[i] = (IF Stop(elapsed) THEN "done" ELSE "sleep")
                   \/ /\ push[i] = "sending" /\ last'[i] = "pusherr"
                      /\ pc'[i] = (IF Stop(elapsed) THEN "done" ELSE "sleep")
          /\ last[i] = "ack" => (last'[i] = "ack" /\ attempts'[i] = attempts[i])]_vars
  /\ [](\A i \in Shards :
          last[i] = "ack" =>
            (pc[i] = "done" /\ NegEvents(i) = 0))

C20_Witness ==
  \E i \in Shards : /\ last[i] = "ack" /\ attempts[i] = MaxElapsed + 1
                    /\ \E j \in Shards : last[j] = "nack" /\ pc[j] = "sleep"

\* C21: an attempt whose host does not list the chosen token ends there and
\* ends the shard's negotiation: the negotiator raises no event, no shard's
\* status changes, the attempt registers, signs and pushes nothing, and no
\* attempt of the shard follows.
C21_UnsupportedTokenSoftStop ==
  /\ [][\A i \in Shards :
          /\ (pc[i] = "tokens" /\ last'[i] = "unsupported") =>
                /\ pc'[i] = "done"
                /\ reg' = reg /\ push' = push /\ ack' = ack
                /\ errEv' = errEv /\ shardStatus' = shardStatus
          /\ last[i] = "unsupported" =>
                (last'[i] = "unsupported" /\ attempts'[i] = attempts[i])]_vars
  /\ [](\A i \in Shards :
          last[i] = "unsupported" =>
            /\ pc[i] = "done" /\ NegEvents(i) = 0
            /\ attempts[i] \notin reg[i] /\ push[i] = "none")

C21_Witness ==
  \E i \in Shards : /\ last[i] = "unsupported" /\ attempts[i] = MaxElapsed + 1
                    /\ ~cancelled /\ wpc = "run"

\* C22: an attempt whose supporttokens call fails ends there with the
\* registry as it was and nothing signed or pushed; it raises no event unless
\* the budget is exhausted; otherwise the negotiator sleeps, and the sleep
\* ends in a new attempt, which starts with the host selection.
C22_TokenCallFailureLeavesNoTrace ==
  /\ [][\A i \in Shards :
          /\ (pc[i] = "tokens" /\ last'[i] = "tokfail") =>
                /\ reg' = reg /\ push' = push /\ ack' = ack
                /\ shardStatus' = shardStatus /\ blocked' = blocked
                /\ pc'[i] = (IF Stop(elapsed) THEN "done" ELSE "sleep")
                /\ errEv' = (IF Stop(elapsed) THEN [errEv EXCEPT !.timeout[i] = @ + 1]
                                              ELSE errEv)
          /\ (pc[i] = "sleep" /\ pc'[i] # "sleep") =>
                (attempts'[i] = attempts[i] + 1 /\ pc'[i] \in {"tokens", "sleep", "done"})]_vars
  /\ [](\A i \in Shards :
          last[i] = "tokfail" =>
            (attempts[i] \notin reg[i] /\ push[i] = "none" /\ ack[i] = "none"))
  /\ \A i \in Shards : (pc[i] = "sleep" /\ last[i] = "tokfail") ~> (pc[i] # "sleep")

C22_Witness ==
  \E i \in Shards : /\ pc[i] = "sleep" /\ last[i] = "tokfail" /\ ~cancelled
                    /\ reg[i] = {} /\ errEv = NoEvents

\* C23: a tick whose query fails does nothing: no finalize, no event, and
\* the watcher stays in its loop, where the next tick queries again.
C23_QueryErrorSkipsTick ==
  /\ [][WatcherTick("err") =>
          /\ wpc' = "run" /\ wlast' = "qerr"
          /\ submits' = submits /\ errEv' = errEv]_vars
  /\ [](wlast = "qerr" => (wpc = "run" /\ \A q \in Queries : ENABLED WatcherTick(q)))

C23_Witness ==
  /\ wlast = "qerr" /\ inp.n = MaxShards /\ CompleteNum = inp.n /\ submits = 0

\* C24: a failed finalize raises one error event, a successful one none;
\* either way the watcher ends in the step that invokes finalize, and an
\* ended watcher neither polls nor finalizes again.
C24_FinalizeFailureOneEvent ==
  /\ [][submits' # submits =>
          /\ wpc' = "done" /\ wlast' \in {"submitted", "submitfail"}
          /\ errEv' = [errEv EXCEPT !.submit = IF wlast' = "submitfail" THEN @ + 1 ELSE @]]_vars
  /\ [](/\ submits = 1 => (wpc = "done" /\ wlast \in {"submitted", "submitfail"})
        /\ errEv.submit = (IF wlast = "submitfail" THEN 1 ELSE 0)
        /\ wpc = "done" => \A q \in Queries : ~ENABLED WatcherTick(q))

C24_Witness ==
  /\ wlast = "submitfail" /\ errEv.submit = 1 /\ inp.n = MaxShards /\ wpc = "done"

\* C25: the elapsed time counted against the budget of a negotiator that has
\* made an attempt is never set back by a step of another shard's negotiator,
\* so no shard extends another shard's retry budget.
C25_NegotiatorsIndependent ==
  [][\A i, j \in Shards :
       (i # j /\ Running(i) /\ attempts[i] >= 1 /\ NegStep(j)) => elapsed' >= elapsed]_vars

\* The ways a negotiation ends: the host's nil answer, a soft stop, the
\* cancellation, or a failure with the budget exhausted and the event raised.
EndedWell(i) ==
  \/ last[i] \in {"ack", "nohost", "unsupported", "cancelled"}
  \/ last[i] \in ErrKinds /\ errEv.timeout[i] = 1

\* C26: every negotiator that was started ends: it makes no more attempts
\* than the budget allows, counting the budget anew for every negotiator of
\* the session that resets the shared clock, and its loop ends in success, a
\* soft stop, the cancellation or the exhaustion reported by the timeout event.
C26_NegotiatorTerminates ==
  /\ [](\A i \in Shards :
          /\ attempts[i] <= MaxShards * (MaxElapsed + 1)
          /\ pc[i] = "done" => EndedWell(i))
  /\ \A i \in Shards : (pc[i] = "ready") ~> (pc[i] = "done")

C26_Witness ==
  /\ inp.n = MaxShards /\ \A i \in Session : pc[i] = "done"
  /\ \E i \in Session : last[i] = "timeout" /\ attempts[i] = MaxElapsed + 1
  /\ \E i \in Session : last[i] = "ack"

\* C27: while an attempt signs or has its push in flight, the shard index in
\* the contract and in the init call is the shard's position in
\* rss.ShardHashes, and the content id is the one at that position.
C27_IndexIsPositionInShardHashes ==
  \A index \in Shards :
    pc[index] \in {"sign", "await"} =>
      /\ ContractParams(inp, index).ShardIndex = index
      /\ ContractParams(inp, index).ShardHash = ShardHash(index)

\* C28: a value can be received by shard i's negotiator only while its
\* attempt awaits, and the wait starts with nothing to receive, so every value
\* an attempt receives was sent for that attempt; a value sent for an attempt
\* that has ended stays with its blocked sender and is never received.
C28_AttemptsIsolatedByChannels ==
  /\ [](\A i \in Shards :
          pc[i] # "await" => (push[i] # "sending" /\ ack[i] \notin {"nil", "err"}))
  /\ [][/\ \A i \in Shards :
            (pc[i] # "await" /\ pc'[i] = "await") =>
              (push'[i] = "calling" /\ ack'[i] = "none")
        /\ blocked \subseteq blocked']_vars

C28_Witness ==
  /\ inp.n = 1 /\ blocked = {"ack"}
  /\ pc[1] = "await" /\ attempts[1] > 1 /\ push[1] = "calling" /\ ack[1] = "none"

\* A session without shards whose preflight succeeded.
Empty == ret = "nil" /\ inp.n = 0

\* C29: in a session without shards no negotiator ever runs, and the first
\* tick of the watcher whose query succeeds invokes finalize and ends the
\* watcher; until then the watcher has done nothing but skip failed queries,
\* and it ends otherwise only by observing the cancellation.
C29_ZeroShardsFinalize ==
  /\ [](Empty =>
          /\ \A i \in Shards : pc[i] = "idle" /\ attempts[i] = 0
          /\ reg = [i \in Shards |-> {}] /\ errEv.shards = 0
          /\ wpc = "run" => (submits = 0 /\ wlast \in {"wait", "qerr"} /\ errEv = NoEvents)
          /\ wpc = "done" => (submits = 1 \/ (cancelled /\ wlast = "ctxdone")))
  /\ [][(Empty /\ \E q \in Queries \ {"err"} : WatcherTick(q)) =>
          (submits' = submits + 1 /\ wpc' = "done")]_vars

C29_Witness == Empty /\ submits = 1 /\ wlast = "submitted" /\ ~cancelled /\ wpc = "done"

====
